---- MODULE Spec2Model ----
(***************************************************************************)
(* Model of the LLM-internals simulator.                                   *)
(*                                                                         *)
(*  - the generation controller of the App component (prompt, generated    *)
(*    tokens, snapshot, auto-run timer, delayed initial run);              *)
(*  - the top-k / top-p filter of InteractiveOutputView;                   *)
(*  - the causal attention scores and the softmax of utils/math and of     *)
(*    the App's runPipeline.                                               *)
(*                                                                         *)
(* Numbers are fixed point.  Probabilities of a distribution are integer   *)
(* hundredths (they sum to 100); attention scores are integer numbers of   *)
(* halves; values of exp are integer millionths and the attention weights  *)
(* of utils/math are integer ten-thousandths (its 4-decimal rounding).     *)
(*                                                                         *)
(* A text is a sequence of atoms: a word, a blank " ", or one of the       *)
(* punctuation characters "." "," "!".  Adjacent word atoms form one       *)
(* longer word, which is no vocabulary entry.                              *)
(***************************************************************************)
EXTENDS Integers, Sequences, FiniteSets, TLC

VARIABLES
    \* ---- App component state (useState / useRef) ----
    inputText,        \* the prompt text
    generatedTokens,  \* sequence of token texts
    embedDim,
    temperature,      \* in tenths (10 = 1.0)
    maxTokens,
    pipelineData,     \* << >> (null) or << snapshot >>
    isAutoRunning,
    autoRunRef,       \* << >> or << closure >>: the live interval autoRunRef.current names
    \* ---- browser timers ----
    intervals,        \* set of closures of the live setInterval timers
    pendingRuns,      \* queue of closures of the pending setTimeout callbacks of handleRunFull
    \* ---- observers (no program state) ----
    lastOp,           \* the handler that ran last
    stepCtx,          \* context used by the last executed step of the current run, << >> if none
    lastError,        \* << >> or << error >>: what the handler that ran last threw
    \* ---- InteractiveOutputView: inputs of the top-k / top-p filter ----
    probabilities,    \* distribution, integer hundredths
    topK,
    topP,             \* integer hundredths
    \* ---- attention stage inputs ----
    Q,                \* sequence of rows (integer vectors, units of 1.00)
    K,
    V,                \* value rows, << >> where only scores and weights are looked at
    \* ---- a function of the utility modules called on its own ----
    utilCall,         \* << >> or << [ op, args, result ] >>: the last call and its outcome
    \* ---- the generation controller's SimulationState ----
    simulation,       \* [ step, maxTokens, generatedTokens, selectedToken ]
    \* ---- the training simulator's component state and its interval ----
    training          \* [ weights, isTraining, step, lossHistory, currentPair,
                      \*   currentPreds, learningRate, trainingRef ]

ctlVars  == <<inputText, generatedTokens, embedDim, temperature, maxTokens,
              pipelineData, isAutoRunning, autoRunRef, intervals, pendingRuns,
              lastOp, stepCtx, lastError>>
viewVars == <<probabilities, topK, topP>>
attnVars == <<Q, K, V>>
utilVars == <<utilCall>>
simVars  == <<simulation>>
trainVars == <<training>>
vars     == <<ctlVars, viewVars, attnVars, utilVars, simVars, trainVars>>

----------------------------------------------------------------------------
(* Bounds of the model *)

\* the Max Tokens slider is explored from 1 up to this value (the slider goes to 10)
MaxTokensHi == 2

\* at most this many delayed initial runs are pending at once
MaxPending == 1

----------------------------------------------------------------------------
(* Vocabulary and tokenizer of the App *)

VOCAB ==
    << "<START>", "I", "like", "love", "hate", "cats", "dogs", "code", "math",
       "pizza", "is", "are", "fun", "hard", "tasty", "very", "and", ".", "!",
       "<END>", "<UNK>" >>

Range(s) == { s[i] : i \in 1..Len(s) }

Last(s) == s[Len(s)]

IsPunct(a) == a \in {".", ",", "!"}

IsBlank(a) == a = " "

\* VOCAB.indexOf(t), 0-based, -1 when absent
IndexOf(t) ==
    IF t \in Range(VOCAB)
    THEN (CHOOSE i \in 1..Len(VOCAB) :
              VOCAB[i] = t /\ \A j \in 1..(i-1) : VOCAB[j] # t) - 1
    ELSE -1

\* text.trim().split(/\s+/): the maximal runs of non-blank atoms; the empty
\* (or all-blank) text yields the single empty run.
RECURSIVE SplitRuns(_, _, _)
SplitRuns(text, i, cur) ==
    IF i > Len(text)
    THEN (IF cur = << >> THEN << >> ELSE << cur >>)
    ELSE IF IsBlank(text[i])
         THEN (IF cur = << >> THEN << >> ELSE << cur >>) \o SplitRuns(text, i + 1, << >>)
         ELSE SplitRuns(text, i + 1, Append(cur, text[i]))

SplitWhitespace(text) ==
    LET runs == SplitRuns(text, 1, << >>)
    IN  IF runs = << >> THEN << << >> >> ELSE runs

\* t.replace(/[.,!]/g, "") followed by the VOCAB.includes test
CleanToken(run) ==
    LET clean == SelectSeq(run, LAMBDA a : ~IsPunct(a))
    IN  IF Len(clean) = 1 /\ clean[1] \in Range(VOCAB) THEN clean[1] ELSE "<UNK>"

\* mutant: the start token is not prepended
tokenizeWithoutStart(text) ==
    LET rawTokens == SplitWhitespace(text)
    IN  [ i \in 1..Len(rawTokens) |-> CleanToken(rawTokens[i]) ]

tokenize(text) ==
    LET rawTokens == SplitWhitespace(text)
    IN  << "<START>" >> \o [ i \in 1..Len(rawTokens) |-> CleanToken(rawTokens[i]) ]

----------------------------------------------------------------------------
(* InteractiveOutputView: sorting and the top-k / top-p filter *)

\* default props of the view
initialTopK == 5

initialTopP == 90

\* probabilities.map((prob, i) => ({ text: vocab[i], prob, id: i }))
TokenEntries(probs) == [ i \in 1..Len(probs) |-> [ id |-> i - 1, prob |-> probs[i] ] ]

\* insertion of t into a sequence sorted by descending prob, after its equals
\* (Array.prototype.sort is stable)
RECURSIVE InsertDesc(_, _)
InsertDesc(sorted, t) ==
    IF sorted = << >> THEN << t >>
    ELSE IF Head(sorted).prob >= t.prob
         THEN << Head(sorted) >> \o InsertDesc(Tail(sorted), t)
         ELSE << t >> \o sorted

RECURSIVE SortDesc(_, _)
SortDesc(entries, n) ==
    IF n = 0 THEN << >> ELSE InsertDesc(SortDesc(entries, n - 1), entries[n])

\* .sort((a, b) => b.prob - a.prob)
sortedTokens(probs) == SortDesc(TokenEntries(probs), Len(probs))

\* the running sum the map callback keeps: cumulativeProb after index k (1-based)
RECURSIVE RunningSum(_, _)
RunningSum(sorted, k) ==
    IF k = 0 THEN 0 ELSE RunningSum(sorted, k - 1) + sorted[k].prob

\* mutant: the top-p test counts the token itself
ProcessTokenInclusive(sorted, k, tK, tP) ==
    LET token          == sorted[k]
        cumulativeProb == RunningSum(sorted, k)
    IN  [ id |-> token.id, prob |-> token.prob,
          isActive |-> (k - 1) < tK /\ cumulativeProb < tP,
          cumulativeProb |-> cumulativeProb ]

\* mutant: the top-p test is not strict
ProcessTokenNonStrict(sorted, k, tK, tP) ==
    LET token          == sorted[k]
        cumulativeProb == RunningSum(sorted, k)
    IN  [ id |-> token.id, prob |-> token.prob,
          isActive |-> (k - 1) < tK /\ cumulativeProb - token.prob <= tP,
          cumulativeProb |-> cumulativeProb ]

\* the map callback of processedTokens, at position k (1-based; index = k - 1)
ProcessToken(sorted, k, tK, tP) ==
    LET token          == sorted[k]
        cumulativeProb == RunningSum(sorted, k)
        isWithinTopK   == (k - 1) < tK
        isWithinTopP   == cumulativeProb - token.prob < tP
    IN  [ id |-> token.id, prob |-> token.prob,
          isActive |-> isWithinTopK /\ isWithinTopP,
          cumulativeProb |-> cumulativeProb ]

processedTokens(sorted, tK, tP) ==
    [ k \in 1..Len(sorted) |-> ProcessToken(sorted, k, tK, tP) ]

\* ids of the tokens the filter keeps
ActiveIds(probs, tK, tP) ==
    LET processed == processedTokens(sortedTokens(probs), tK, tP)
    IN  { processed[k].id : k \in { j \in 1..Len(processed) : processed[j].isActive } }

----------------------------------------------------------------------------
(* Inputs explored by the model *)

PromptILike   == << "I", " ", "like" >>
PromptCodeIs  == << "code", " ", "is" >>
PromptWithEnd == << "I", " ", "like", " ", "<END>" >>
PromptILikeCats == << "I", " ", "like", " ", "cats" >>

\* the preset prompt buttons that are explored (of "I like", "code is", "cats are")
Presets == { PromptILike, PromptCodeIs }

\* texts typed into the prompt textarea
PromptTexts == { PromptILike, PromptWithEnd }

\* positions of the Embedding Size slider (2..6) that are explored
EmbedDims == { 4, 5 }

\* positions of the Temperature slider (0.1..2.0), in tenths
Temperatures == { 10, 5 }

\* A distribution is a sequence over the vocabulary ids, in hundredths.
Dist(f) == [ i \in 1..Len(VOCAB) |-> IF VOCAB[i] \in DOMAIN f THEN f[VOCAB[i]] ELSE 0 ]

\* The arithmetic of the forward pass (sine-hash weights, matrix products, exp)
\* is not recomputed in the controller.  Its final distribution is a fixed
\* function of the context, as in the code where equal inputs give equal
\* outputs: one of two distributions, selected by the parity of the context
\* length.
DistOdd  == Dist([ like |-> 95 ] @@ ("<END>" :> 5))
DistEven == Dist([ cats |-> 60 ] @@ ("<END>" :> 40))

ForwardProbs(currentTokens, dim, temp) ==
    IF Len(currentTokens) % 2 = 1 THEN DistOdd ELSE DistEven

\* values of Math.random(), in hundredths
Randoms == { 10, 97 }

----------------------------------------------------------------------------
(* The App component: the forward pass and the generation step *)

\* The snapshot of one forward pass.  Every matrix of the snapshot is a function
\* of the context, of the weights (which depend on embedDim only) and of the
\* temperature; the snapshot records these three and the final distribution.
runPipeline(currentTokens, dim, temp) ==
    [ tokens      |-> currentTokens,
      embedDim    |-> dim,
      temperature |-> temp,
      probs       |-> ForwardProbs(currentTokens, dim, temp) ]

\* the sampling loop: the first index whose accumulated probability reaches r,
\* index 0 when there is none
RECURSIVE SampleFrom(_, _, _, _)
SampleFrom(probs, r, i, accumulated) ==
    IF i > Len(probs) THEN 0
    ELSE IF r <= accumulated + probs[i] THEN i - 1
         ELSE SampleFrom(probs, r, i + 1, accumulated + probs[i])

SampleIndex(probs, r) == SampleFrom(probs, r, 1, 0)

\* mutant: the updater appends the token twice
AppendTokenTwice(prev, nextToken) == Append(Append(prev, nextToken), nextToken)

\* setGeneratedTokens(prev => [...prev, nextToken])
AppendToken(prev, nextToken) == Append(prev, nextToken)

\* what handleGenerateStep of one render closes over
StepClosure(inp, gen, dim, temp, max) ==
    [ inputText |-> inp, generatedTokens |-> gen, embedDim |-> dim,
      temperature |-> temp, maxTokens |-> max ]

\* what the delayed callback of handleRunFull closes over
RunClosure(inp, dim, temp) ==
    [ inputText |-> inp, embedDim |-> dim, temperature |-> temp ]

\* mutant: the second effect tests for the end token only
TerminalReachedOnEndOnly(gen, max) == gen # << >> /\ Last(gen) = "<END>"

\* the terminal test of the second effect
TerminalReached(gen, max) ==
    Len(gen) >= max \/ (gen # << >> /\ Last(gen) = "<END>")

\* clearInterval(autoRunRef.current)
ClearInterval(ref, ints) == ints \ Range(ref)

\* mutant: the interval effect returns no cleanup
EffectCleanupMissing(ref, ints) == ints

\* the cleanup of the interval effect
EffectCleanup(ref, ints) == ClearInterval(ref, ints)

\* autoRunRef.current matters only while it names a live timer
LiveRef(ref, ints) == IF Range(ref) \subseteq ints THEN ref ELSE << >>

\* The render that follows a handler and the effects it runs.  The arguments are
\* the state the handler has set; the result is the auto-run flag and the timers
\* once the effects (and the re-render the second effect may cause) are done.
Commit(inp, gen, dim, temp, max, auto, ref, ints, genChanged) ==
    LET deps1 == genChanged \/ max # maxTokens \/ auto # isAutoRunning
        deps2 == genChanged \/ max # maxTokens
        \* cleanup of the interval effect
        ints1 == IF deps1 THEN EffectCleanup(ref, ints) ELSE ints
        ref1  == LiveRef(ref, ints1)
        \* body of the interval effect
        c     == StepClosure(inp, gen, dim, temp, max)
        ints2 == IF deps1 /\ auto THEN ints1 \cup {c} ELSE ints1
        ref2  == IF deps1 /\ auto THEN << c >> ELSE ref1
        \* the terminal-condition effect
        stop  == deps2 /\ TerminalReached(gen, max)
        ints3 == IF stop THEN ClearInterval(ref2, ints2) ELSE ints2
        ref3  == LiveRef(ref2, ints3)
    IN  [ auto |-> IF stop THEN FALSE ELSE auto, ref |-> ref3, ints |-> ints3 ]

\* a handler's state updates, followed by the render
Apply(inp, gen, dim, temp, max, pd, auto, ref, ints, pend, genChanged, op, sctx) ==
    LET r == Commit(inp, gen, dim, temp, max, auto, ref, ints, genChanged)
    IN  /\ inputText' = inp
        /\ generatedTokens' = gen
        /\ embedDim' = dim
        /\ temperature' = temp
        /\ maxTokens' = max
        /\ pipelineData' = pd
        /\ isAutoRunning' = r.auto
        /\ autoRunRef' = r.ref
        /\ intervals' = r.ints
        /\ pendingRuns' = pend
        /\ lastOp' = op
        /\ stepCtx' = sctx
        /\ lastError' = << >>
        /\ UNCHANGED << viewVars, attnVars, utilVars, simVars, trainVars >>

\* rows of weights.posEncodings
posEncodingRows == 20

\* runPipeline throws a TypeError where the context has more positions than
\* posEncodings has rows: addVectors(emb, undefined) reads v2[i] of undefined
runPipelineThrows(currentTokens) == Len(currentTokens) > posEncodingRows

\* mutant: the snapshot is cleared before the forward pass throws
FailedHandlerClearsSnapshot(op, err) ==
    /\ pipelineData' = << >>
    /\ lastOp' = op
    /\ lastError' = << err >>
    /\ UNCHANGED << inputText, generatedTokens, embedDim, temperature, maxTokens,
                    isAutoRunning, autoRunRef, intervals, pendingRuns, stepCtx >>
    /\ UNCHANGED << viewVars, attnVars, utilVars, simVars, trainVars >>

\* a handler whose forward pass throws: the exception leaves the handler before
\* any state setter is called, so no render follows
FailedHandler(op, err) ==
    /\ lastOp' = op
    /\ lastError' = << err >>
    /\ UNCHANGED << inputText, generatedTokens, embedDim, temperature, maxTokens,
                    pipelineData, isAutoRunning, autoRunRef, intervals, pendingRuns,
                    stepCtx >>
    /\ UNCHANGED << viewVars, attnVars, utilVars, simVars, trainVars >>

\* handleGenerateStep as closed over by c, with Math.random() = r; the handler's
\* constants fullSequence, results and nextToken are bound once
handleGenerateStep(c, r, op) ==
    \E fullSequence \in { tokenize(c.inputText) \o c.generatedTokens } :
    \E results \in { runPipeline(fullSequence, c.embedDim, c.temperature) } :
    \E nextToken \in { VOCAB[SampleIndex(results.probs, r) + 1] } :
        IF Last(fullSequence) = "<END>" \/ Len(c.generatedTokens) >= c.maxTokens
        THEN Apply(inputText, generatedTokens, embedDim, temperature, maxTokens,
                   pipelineData, isAutoRunning, autoRunRef, intervals, pendingRuns,
                   FALSE, op, stepCtx)
        ELSE IF runPipelineThrows(fullSequence)
        THEN FailedHandler(op, "TypeError")
        ELSE Apply(inputText, AppendToken(generatedTokens, nextToken), embedDim,
                   temperature, maxTokens, << results >>, isAutoRunning, autoRunRef,
                   intervals, pendingRuns, TRUE, op, fullSequence)

\* handleRunFull: reset now, initial forward pass after a delay
handleRunFull(inp, op) ==
    /\ Len(pendingRuns) < MaxPending
    /\ Apply(inp, << >>, embedDim, temperature, maxTokens, << >>, isAutoRunning,
             autoRunRef, intervals,
             Append(pendingRuns, RunClosure(inputText, embedDim, temperature)),
             TRUE, op, << >>)

----------------------------------------------------------------------------
(* Events *)

CurrentClosure ==
    StepClosure(inputText, generatedTokens, embedDim, temperature, maxTokens)

\* the Step button
StepDisabled == Len(generatedTokens) >= maxTokens \/ isAutoRunning

ClickStep ==
    /\ ~StepDisabled
    /\ \E r \in Randoms : handleGenerateStep(CurrentClosure, r, "step")

\* the Auto / Stop button
AutoDisabled == Len(generatedTokens) >= maxTokens

StartAuto ==
    /\ ~AutoDisabled
    /\ ~isAutoRunning
    /\ Apply(inputText, generatedTokens, embedDim, temperature, maxTokens, pipelineData,
             TRUE, autoRunRef, intervals, pendingRuns, FALSE, "startAuto", stepCtx)

StopAuto ==
    /\ ~AutoDisabled
    /\ isAutoRunning
    /\ Apply(inputText, generatedTokens, embedDim, temperature, maxTokens, pipelineData,
             FALSE, autoRunRef, ClearInterval(autoRunRef, intervals), pendingRuns, FALSE,
             "stopAuto", stepCtx)

\* a tick of a live interval timer
TimerTick ==
    \E c \in intervals : \E r \in Randoms : handleGenerateStep(c, r, "tick")

\* the Reset & Start button
ClickRunFull == handleRunFull(inputText, "runFull")

\* a preset prompt button: setInputText(s); handleRunFull()
PresetPrompt == \E s \in Presets : handleRunFull(s, "preset")

\* the delayed callback of handleRunFull
RunTimeout ==
    /\ pendingRuns # << >>
    /\ LET c == Head(pendingRuns)
           results == runPipeline(tokenize(c.inputText), c.embedDim, c.temperature)
       IN  IF runPipelineThrows(tokenize(c.inputText))
           THEN /\ lastOp' = "runTimeout"
                /\ lastError' = << "TypeError" >>
                /\ pendingRuns' = Tail(pendingRuns)
                /\ UNCHANGED << inputText, generatedTokens, embedDim, temperature,
                                maxTokens, pipelineData, isAutoRunning, autoRunRef,
                                intervals, stepCtx >>
                /\ UNCHANGED << viewVars, attnVars, utilVars, simVars, trainVars >>
           ELSE Apply(inputText, generatedTokens, embedDim, temperature, maxTokens,
                      << results >>, isAutoRunning, autoRunRef, intervals,
                      Tail(pendingRuns), FALSE, "runTimeout", stepCtx)

\* the prompt textarea
SetInputText ==
    \E s \in PromptTexts :
        /\ s # inputText
        /\ Apply(s, generatedTokens, embedDim, temperature, maxTokens, pipelineData,
                 isAutoRunning, autoRunRef, intervals, pendingRuns, FALSE,
                 "setInputText", stepCtx)

\* the Temperature slider (explored by the specifications that vary the temperature)
SetTemperature ==
    \E t \in Temperatures :
        /\ t # temperature
        /\ Apply(inputText, generatedTokens, embedDim, t, maxTokens, pipelineData,
                 isAutoRunning, autoRunRef, intervals, pendingRuns, FALSE,
                 "setTemperature", stepCtx)

\* the Embedding Size slider
SetEmbedDim ==
    \E d \in EmbedDims :
        /\ d # embedDim
        /\ Apply(inputText, << >>, d, temperature, maxTokens, << >>,
                 isAutoRunning, autoRunRef, intervals, pendingRuns, TRUE,
                 "setEmbedDim", << >>)

\* the Max Tokens slider
SetMaxTokens ==
    \E m \in 1..MaxTokensHi :
        /\ m # maxTokens
        /\ Apply(inputText, generatedTokens, embedDim, temperature, m, pipelineData,
                 isAutoRunning, autoRunRef, intervals, pendingRuns, FALSE,
                 "setMaxTokens", stepCtx)

----------------------------------------------------------------------------
(* The generation controller that drives SimulationState.step *)

\* the values of SimulationStep from EMBEDDING on, in pipeline order
PipelineOrder == << "EMBEDDING", "ATTENTION", "FFN", "OUTPUT", "APPEND" >>

\* the step that follows s in the pipeline (s is not the last)
StepAfter(s) ==
    PipelineOrder[(CHOOSE i \in 1..Len(PipelineOrder) : PipelineOrder[i] = s) + 1]

\* the run is configured with 1..SimMaxTokens tokens to generate
SimMaxTokens == 3

\* the tokens the sampler selects from
SimTokens == { "I", "cats", "dogs", "<END>" }

\* the terminal condition tested in APPEND
SimTerminal(generated, max) == Len(generated) >= max \/ Last(generated) = "<END>"

\* mutant: after APPEND the controller tokenizes again
StepAfterAppendRetokenizes(generated, max) ==
    IF SimTerminal(generated, max) THEN "IDLE" ELSE "TOKENIZING"

\* where the controller goes after APPEND
StepAfterAppend(generated, max) ==
    IF SimTerminal(generated, max) THEN "IDLE" ELSE "EMBEDDING"

\* "run": the controller leaves IDLE
SimRun ==
    /\ simulation.step = "IDLE"
    /\ \E max \in 1..SimMaxTokens :
           simulation' = [ step |-> "TOKENIZING", maxTokens |-> max,
                           generatedTokens |-> << >>, selectedToken |-> << >> ]
    /\ UNCHANGED << ctlVars, viewVars, attnVars, utilVars, trainVars >>

\* TOKENIZING is followed by EMBEDDING
SimTokenized ==
    /\ simulation.step = "TOKENIZING"
    /\ simulation' = [ simulation EXCEPT !.step = "EMBEDDING" ]
    /\ UNCHANGED << ctlVars, viewVars, attnVars, utilVars, trainVars >>

\* EMBEDDING, ATTENTION and FFN are followed by the next stage
SimAdvance ==
    /\ simulation.step \in { "EMBEDDING", "ATTENTION", "FFN" }
    /\ simulation' = [ simulation EXCEPT !.step = StepAfter(simulation.step),
                                         !.selectedToken = << >> ]
    /\ UNCHANGED << ctlVars, viewVars, attnVars, utilVars, trainVars >>

\* OUTPUT: the sampler selects a token, APPEND follows
SimSample ==
    /\ simulation.step = "OUTPUT"
    /\ \E t \in SimTokens :
           simulation' = [ simulation EXCEPT !.step = StepAfter(simulation.step),
                                            !.selectedToken = << t >> ]
    /\ UNCHANGED << ctlVars, viewVars, attnVars, utilVars, trainVars >>

\* APPEND: the selected token joins the generated tokens, then the terminal test
SimAppend ==
    /\ simulation.step = "APPEND"
    /\ LET generated == Append(simulation.generatedTokens, simulation.selectedToken[1])
       IN  simulation' = [ simulation EXCEPT
                             !.generatedTokens = generated,
                             !.step = StepAfterAppend(generated, simulation.maxTokens) ]
    /\ UNCHANGED << ctlVars, viewVars, attnVars, utilVars, trainVars >>

\* the controller after construction
SimInit ==
    simulation = [ step |-> "IDLE", maxTokens |-> 1, generatedTokens |-> << >>,
                   selectedToken |-> << >> ]

SimNext == SimRun \/ SimTokenized \/ SimAdvance \/ SimSample \/ SimAppend

----------------------------------------------------------------------------
(* The training simulator (LLMTrainingSimulator) *)

\* learning rates in hundredths; LEARNING_RATE_DEFAULT is 0.1
LEARNING_RATE_DEFAULT == 10
LearningRates == { LEARNING_RATE_DEFAULT, 5 }

\* the simulator's vocabulary
TrainingVocab == << "Paris", "France", "Rome", "Italy", "is", "capital", "of", "." >>

TRAINING_DATA ==
    << [ input |-> "Paris",   target |-> "is" ],
       [ input |-> "is",      target |-> "capital" ],
       [ input |-> "capital", target |-> "of" ],
       [ input |-> "of",      target |-> "France" ],
       [ input |-> "Rome",    target |-> "is" ],
       [ input |-> "of",      target |-> "Italy" ] >>

\* index of a word in the vocabulary, from 0
TOKEN_MAP(word) ==
    (CHOOSE i \in 1..Len(TrainingVocab) : TrainingVocab[i] = word) - 1

\* the timer stops at this many training steps since the last reset
MaxTrainSteps == 7

\* a weight row is kept as the gradient updates applied to its initial (random)
\* values, oldest first
initWeights == [ i \in 0..(Len(TrainingVocab) - 1) |-> << >> ]

\* s.slice(-n)
LastN(s, n) == IF Len(s) <= n THEN s ELSE SubSeq(s, Len(s) - n + 1, Len(s))

\* what performTrainingStep closes over in the render that created it
TrainingClosure(st, lr) == [ step |-> st, learningRate |-> lr ]

\* mutant: the interval effect depends on isTraining only
trainingEffectOnIsTrainingOnly(isTr, st, lr, oldIsTr, oldSt, oldRef) ==
    IF isTr # oldIsTr
    THEN IF isTr THEN << TrainingClosure(st, lr) >> ELSE << >>
    ELSE oldRef

\* the interval effect, dependencies [isTraining, step]: the live interval after
\* the render in which isTraining and step have the given values
trainingEffect(isTr, st, lr, oldIsTr, oldSt, oldRef) ==
    IF isTr # oldIsTr \/ st # oldSt
    THEN IF isTr THEN << TrainingClosure(st, lr) >> ELSE << >>
    ELSE oldRef

\* performTrainingStep as closed over by c, followed by the render it causes
performTrainingStep(c) ==
    LET dataIdx   == c.step % Len(TRAINING_DATA)
        pair      == TRAINING_DATA[dataIdx + 1]
        inputIdx  == TOKEN_MAP(pair.input)
        targetIdx == TOKEN_MAP(pair.target)
        logits    == training.weights[inputIdx]
        loss      == [ input |-> pair.input, target |-> pair.target,
                       logits |-> logits ]
        newWeights == [ training.weights EXCEPT ![inputIdx] =
                            Append(@, [ target |-> targetIdx,
                                        learningRate |-> c.learningRate ]) ]
    IN  /\ training' =
               [ training EXCEPT
                   !.weights      = newWeights,
                   !.currentPair  = << pair >>,
                   !.currentPreds = << logits >>,
                   !.lossHistory  = Append(LastN(@, 49), loss),
                   !.step         = @ + 1,
                   !.trainingRef  =
                       trainingEffect(training.isTraining, training.step + 1,
                                      training.learningRate, training.isTraining,
                                      training.step, @) ]
        /\ UNCHANGED << ctlVars, viewVars, attnVars, utilVars, simVars >>

\* a tick of the training interval
TrainingTick ==
    /\ training.trainingRef # << >>
    /\ training.step < MaxTrainSteps
    /\ \E c \in { training.trainingRef[1] } : performTrainingStep(c)

\* the Start / Pause button
ToggleTraining ==
    /\ training' =
           [ training EXCEPT
               !.isTraining  = ~ @,
               !.trainingRef =
                   trainingEffect(~ training.isTraining, training.step,
                                  training.learningRate, training.isTraining,
                                  training.step, @) ]
    /\ UNCHANGED << ctlVars, viewVars, attnVars, utilVars, simVars >>

\* the Reset button
reset ==
    /\ training' =
           [ training EXCEPT
               !.isTraining   = FALSE,
               !.weights      = initWeights,
               !.step         = 0,
               !.lossHistory  = << >>,
               !.currentPair  = << >>,
               !.currentPreds = << >>,
               !.trainingRef  =
                   trainingEffect(FALSE, 0, training.learningRate,
                                  training.isTraining, training.step, @) ]
    /\ UNCHANGED << ctlVars, viewVars, attnVars, utilVars, simVars >>

\* the Learning Rate slider
SetLearningRate ==
    /\ \E lr \in LearningRates :
           /\ lr # training.learningRate
           /\ training' =
                  [ training EXCEPT
                      !.learningRate = lr,
                      !.trainingRef  =
                          trainingEffect(training.isTraining, training.step, lr,
                                         training.isTraining, training.step, @) ]
    /\ UNCHANGED << ctlVars, viewVars, attnVars, utilVars, simVars >>

\* the simulator after construction
TrainInit ==
    training = [ weights |-> initWeights, isTraining |-> FALSE, step |-> 0,
                 lossHistory |-> << >>, currentPair |-> << >>,
                 currentPreds |-> << >>, learningRate |-> LEARNING_RATE_DEFAULT,
                 trainingRef |-> << >> ]

TrainingNext == TrainingTick \/ ToggleTraining \/ reset \/ SetLearningRate

----------------------------------------------------------------------------
\* the App after construction
AppInit ==
    /\ inputText = PromptILike
    /\ generatedTokens = << >>
    /\ embedDim = 4
    /\ temperature = 10
    /\ maxTokens \in 1..MaxTokensHi
    /\ pipelineData = << >>
    /\ isAutoRunning = FALSE
    /\ autoRunRef = << >>
    /\ intervals = {}
    /\ pendingRuns = << >>
    /\ lastOp = "init"
    /\ stepCtx = << >>
    /\ lastError = << >>

\* InteractiveOutputView after construction, over a one-token vocabulary
ViewInit ==
    /\ probabilities = << 100 >>
    /\ topK = initialTopK
    /\ topP = initialTopP

\* no attention input
AttnInit ==
    /\ Q = << >>
    /\ K = << >>
    /\ V = << >>

\* no utility function called yet
UtilInit == utilCall = << >>

Init == AppInit /\ ViewInit /\ AttnInit /\ UtilInit /\ SimInit /\ TrainInit

Next ==
    \/ ClickStep
    \/ StartAuto
    \/ StopAuto
    \/ TimerTick
    \/ ClickRunFull
    \/ PresetPrompt
    \/ RunTimeout
    \/ SetInputText
    \/ SetEmbedDim
    \/ SetMaxTokens

Spec == Init /\ [][Next]_vars

\* the auto-run timer and the delayed initial runs do fire
LiveSpec == Init /\ [][Next]_vars /\ WF_vars(TimerTick) /\ WF_vars(RunTimeout)

----------------------------------------------------------------------------
(* The App with prompts that fill the positional-encoding table *)

\* the text of n words "I" separated by single blanks
PromptOfWords(n) == [ i \in 1..(2 * n - 1) |-> IF i % 2 = 1 THEN "I" ELSE " " ]

\* prompts whose context (with <START>) has exactly posEncodingRows positions,
\* and one more
LongPrompts == { PromptOfWords(posEncodingRows - 1), PromptOfWords(posEncodingRows) }

\* the prompt textarea, typing a long prompt
SetLongInputText ==
    \E s \in LongPrompts :
        /\ s # inputText
        /\ Apply(s, generatedTokens, embedDim, temperature, maxTokens, pipelineData,
                 isAutoRunning, autoRunRef, intervals, pendingRuns, FALSE,
                 "setInputText", stepCtx)

LongNext ==
    \/ ClickStep
    \/ StartAuto
    \/ StopAuto
    \/ TimerTick
    \/ ClickRunFull
    \/ RunTimeout
    \/ SetLongInputText

SpecLong == Init /\ [][LongNext]_vars

----------------------------------------------------------------------------
(* The App in the scenario of one token: "I like cats", maxTokens = 1 *)

\* embedDim 4, temperature 1.0, maxTokens 1 and the prompt "I like cats" typed
\* before anything else is done.  The buttons are explored, and the Temperature
\* slider, which has no part in how many tokens are generated.
ScenarioInit ==
    /\ inputText = PromptILikeCats
    /\ generatedTokens = << >>
    /\ embedDim = 4
    /\ temperature = 10
    /\ maxTokens = 1
    /\ pipelineData = << >>
    /\ isAutoRunning = FALSE
    /\ autoRunRef = << >>
    /\ intervals = {}
    /\ pendingRuns = << >>
    /\ lastOp = "init"
    /\ stepCtx = << >>
    /\ lastError = << >>
    /\ ViewInit /\ AttnInit /\ UtilInit /\ SimInit /\ TrainInit

ScenarioNext ==
    \/ ClickStep
    \/ StartAuto
    \/ StopAuto
    \/ TimerTick
    \/ ClickRunFull
    \/ RunTimeout
    \/ SetTemperature

\* the auto-run timer and the delayed initial run do fire
SpecScenario ==
    ScenarioInit /\ [][ScenarioNext]_vars /\ WF_vars(TimerTick) /\ WF_vars(RunTimeout)

----------------------------------------------------------------------------
(* The App with a prompt typed atom by atom *)

\* the prompt textarea holds at most this many atoms while it is typed into
MaxText == 3

\* what is typed: vocabulary words, a word that differs from one by case,
\* a blank and punctuation
TypedAtoms == { "I", "cats", "Cats", " ", ".", "," }

\* the prompt textarea, one more atom typed at the end
TypeAtom ==
    /\ Len(inputText) < MaxText
    /\ \E a \in TypedAtoms :
           Apply(Append(inputText, a), generatedTokens, embedDim, temperature, maxTokens,
                 pipelineData, isAutoRunning, autoRunRef, intervals, pendingRuns, FALSE,
                 "setInputText", stepCtx)

\* the prompt textarea, emptied
ClearText ==
    /\ inputText # << >>
    /\ Apply(<< >>, generatedTokens, embedDim, temperature, maxTokens, pipelineData,
             isAutoRunning, autoRunRef, intervals, pendingRuns, FALSE, "setInputText",
             stepCtx)

\* the prompt textarea, a whole sentence pasted
PasteText ==
    /\ inputText # PromptILikeCats
    /\ Apply(PromptILikeCats, generatedTokens, embedDim, temperature, maxTokens,
             pipelineData, isAutoRunning, autoRunRef, intervals, pendingRuns, FALSE,
             "setInputText", stepCtx)

TypingNext == TypeAtom \/ ClearText \/ PasteText

SpecTyping == Init /\ [][TypingNext]_vars

\* prompts without a word, and the initial one
EditedTexts == { << >>, << " " >>, << "." >>, PromptILike }

\* the prompt textarea, set to one of these texts
EditText ==
    \E s \in EditedTexts :
        /\ s # inputText
        /\ Apply(s, generatedTokens, embedDim, temperature, maxTokens, pipelineData,
                 isAutoRunning, autoRunRef, intervals, pendingRuns, FALSE,
                 "setInputText", stepCtx)

\* the prompt edited between steps and resets
EditingNext ==
    \/ EditText
    \/ ClickStep
    \/ ClickRunFull
    \/ RunTimeout

SpecEditing == Init /\ [][EditingNext]_vars

----------------------------------------------------------------------------
(* InteractiveOutputView on its own: the filter over every distribution *)

\* the vocabulary of the view has 1..MaxVocab tokens
MaxVocab == 3

RECURSIVE SumSeq(_, _)
SumSeq(s, n) == IF n = 0 THEN 0 ELSE SumSeq(s, n - 1) + s[n]

\* the distributions over n tokens, in tenths of the whole
Distributions(n) ==
    { p \in [ 1..n -> { 10 * x : x \in 0..10 } ] : SumSeq(p, n) = 100 }

\* the positions of the Top-P slider: 0.1 to 1.0 in steps of 0.05
TopPValues == { 5 * x : x \in 2..20 }

\* the Top-K slider: 1 to vocab.length
SetTopK ==
    /\ \E k \in 1..Len(probabilities) : k # topK /\ topK' = k
    /\ UNCHANGED << probabilities, topP, ctlVars, attnVars, utilVars, simVars, trainVars >>

\* the Top-P slider
SetTopP ==
    /\ \E p \in TopPValues : p # topP /\ topP' = p
    /\ UNCHANGED << probabilities, topK, ctlVars, attnVars, utilVars, simVars, trainVars >>

\* the view over any distribution; the App stays as constructed
FilterInit ==
    /\ AppInit
    /\ maxTokens = 1
    /\ AttnInit
    /\ UtilInit /\ SimInit /\ TrainInit
    /\ \E n \in 1..MaxVocab : probabilities \in Distributions(n)
    /\ topK = initialTopK
    /\ topP = initialTopP

FilterNext == SetTopK \/ SetTopP

SpecFilter == FilterInit /\ [][FilterNext]_vars

----------------------------------------------------------------------------
(* Causal attention: scores and softmax of utils/math and of the App *)

\* the context has 1..MaxCtx positions
MaxCtx == 3

\* the mask value -1e9, in halves
MaskScore == -2000000000

\* Math.exp(0), Math.exp(-0.5), ... Math.exp(-4), in millionths
ExpTable ==
    << 1000000, 606531, 367879, 223130, 135335, 82085, 49787, 30197, 18316 >>

\* Math.exp of d halves, d <= 0: tabulated down to -4, and 0 where the double
\* underflows (below -745.13); no score of the model lies in between
Exp(d) ==
    CASE d <= 0 /\ -d < Len(ExpTable) -> ExpTable[1 - d]
      [] d <= -1491 -> 0

\* Math.sqrt of a square number
Sqrt(d) == CHOOSE r \in 0..d : r * r = d

\* Math.max(...logits)
MaxOf(s) == CHOOSE x \in Range(s) : \A y \in Range(s) : y <= x

\* parseFloat((v / sum).toFixed(4)) in ten-thousandths: v * 10000 / sum rounded
\* to the nearest integer, computed in two steps of 100 to stay within the
\* 32-bit integers
ToFixed4(v, sum) ==
    LET hi == (v * 100) \div sum
        r  == (v * 100) % sum
    IN  hi * 100 + (2 * r * 100 + sum) \div (2 * sum)

dotProduct(a, b) == SumSeq([ i \in 1..Len(a) |-> a[i] * b[i] ], Len(a))

\* softmax of utils/math: each entry rounded to 4 decimals (ten-thousandths)
utilsSoftmax(logits) ==
    LET max  == MaxOf(logits)
        exps == [ i \in 1..Len(logits) |-> Exp(logits[i] - max) ]
        sum  == SumSeq(exps, Len(exps))
    IN  [ i \in 1..Len(exps) |-> ToFixed4(exps[i], sum) ]

\* d / temperature for d halves and the temperature in tenths:
\* (d * 10) \div temp, computed without leaving the 32-bit integers
DivTemperature(d, temp) == (d \div temp) * 10 + ((d % temp) * 10) \div temp

\* softmax of the App (and of the llm-sim math utilities): unrounded quotients
\* e / sumExps, kept as numerator and denominator; temperature in tenths
softmax(logits, temp) ==
    LET maxLogit == MaxOf(logits)
        exps     == [ i \in 1..Len(logits) |-> Exp(DivTemperature(logits[i] - maxLogit, temp)) ]
        sumExps  == SumSeq(exps, Len(exps))
    IN  [ i \in 1..Len(exps) |-> [ num |-> exps[i], den |-> sumExps ] ]

\* mutant: the mask starts one position late
ScoreEntryMaskLate(Qm, Km, i, j) ==
    IF j <= i + 1
    THEN (2 * dotProduct(Qm[i], Km[j])) \div Sqrt(Len(Qm[1]))
    ELSE MaskScore

\* computeAttention, entry (i, j) of scores: the raw score is a whole number of
\* halves, which the 2-decimal rounding leaves as it is
ScoreEntry(Qm, Km, i, j) ==
    IF j <= i
    THEN (2 * dotProduct(Qm[i], Km[j])) \div Sqrt(Len(Qm[1]))
    ELSE MaskScore

\* computeAttention: scores and weights
computeAttention(Qm, Km) ==
    LET scores == [ i \in 1..Len(Qm) |-> [ j \in 1..Len(Km) |-> ScoreEntry(Qm, Km, i, j) ] ]
    IN  [ scores  |-> scores,
          weights |-> [ i \in 1..Len(Qm) |-> utilsSoftmax(scores[i]) ] ]

\* runPipeline, entry (i, j) of attentionScores
rowScore(Qm, Km, i, j) ==
    IF j > i
    THEN MaskScore
    ELSE (2 * dotProduct(Qm[i], Km[j])) \div Sqrt(Len(Qm[1]))

\* mutant: runPipeline scores every pair of positions
selfAttentionUnmasked(Qm, Km) ==
    LET attentionScores ==
            [ i \in 1..Len(Qm) |-> [ j \in 1..Len(Qm) |->
                (2 * dotProduct(Qm[i], Km[j])) \div Sqrt(Len(Qm[1])) ] ]
    IN  [ attentionScores  |-> attentionScores,
          attentionWeights |-> [ i \in 1..Len(Qm) |-> softmax(attentionScores[i], 10) ] ]

\* runPipeline: attentionScores and attentionWeights (softmax at temperature 1.0)
selfAttention(Qm, Km) ==
    LET attentionScores ==
            [ i \in 1..Len(Qm) |-> [ j \in 1..Len(Qm) |-> rowScore(Qm, Km, i, j) ] ]
    IN  [ attentionScores  |-> attentionScores,
          attentionWeights |-> [ i \in 1..Len(Qm) |-> softmax(attentionScores[i], 10) ] ]

\* the head sizes explored (square numbers)
HeadDims == { 1, 4 }

\* the query and key rows explored, entries in units of 1.00
AttnRows(d) ==
    { [ i \in 1..d |-> 1 ], [ i \in 1..d |-> -1 ],
      [ i \in 1..d |-> IF i = 1 THEN 1 ELSE 0 ] }

\* the context grows by one position: one more row of Q and of K
AppendPosition ==
    /\ Len(Q) < MaxCtx
    /\ \E q \in AttnRows(Len(Q[1])) : \E k \in AttnRows(Len(Q[1])) :
           /\ Q' = Append(Q, q)
           /\ K' = Append(K, k)
    /\ UNCHANGED << V, ctlVars, viewVars, utilVars, simVars, trainVars >>

\* attention over a one-token context; the App and the view stay as constructed
AttnStart ==
    /\ AppInit
    /\ maxTokens = 1
    /\ ViewInit
    /\ UtilInit /\ SimInit /\ TrainInit
    /\ \E d \in HeadDims : \E q \in AttnRows(d) : \E k \in AttnRows(d) :
           /\ Q = << q >>
           /\ K = << k >>
           /\ V = << >>

SpecAttn == AttnStart /\ [][AppendPosition]_vars

----------------------------------------------------------------------------
(* Attention with its output: queries, keys and values of a growing context *)

\* v.toFixed(2) of a value in ten-thousandths, in hundredths
ToFixed2(x) == IF x >= 0 THEN (x + 50) \div 100 ELSE -((50 - x) \div 100)

\* computeAttention: weightedSum, row i (weights in ten-thousandths)
weightedSumRow(weightRow, Vm) ==
    [ k \in 1..Len(Vm[1]) |->
        ToFixed2(SumSeq([ j \in 1..Len(weightRow) |-> weightRow[j] * Vm[j][k] ],
                        Len(weightRow))) ]

\* runPipeline: attentionOutput, row i (weights are the quotients num / den of
\* one row, so the sum is kept over the common denominator)
attentionOutputRow(weightsRow, Vm) ==
    [ d \in 1..Len(Vm[1]) |->
        [ num |-> SumSeq([ j \in 1..Len(weightsRow) |-> weightsRow[j].num * Vm[j][d] ],
                         Len(weightsRow)),
          den |-> weightsRow[1].den ] ]

\* computeAttention with its weighted sum
computeAttentionOutput(Qm, Km, Vm) ==
    LET head == computeAttention(Qm, Km)
    IN  [ scores      |-> head.scores,
          weights     |-> head.weights,
          weightedSum |-> [ i \in 1..Len(Qm) |-> weightedSumRow(head.weights[i], Vm) ] ]

\* runPipeline: scores, weights and attentionOutput
selfAttentionOutput(Qm, Km, Vm) ==
    LET pipe == selfAttention(Qm, Km)
    IN  [ attentionScores  |-> pipe.attentionScores,
          attentionWeights |-> pipe.attentionWeights,
          attentionOutput  |->
              [ i \in 1..Len(Qm) |-> attentionOutputRow(pipe.attentionWeights[i], Vm) ] ]

\* the query, key and value rows of one position, for a head of width 4
AttnPositions ==
    { [ q |-> << 1, 1, 1, 1 >>,     k |-> << 1, 1, 1, 1 >>,     v |-> << 1, 0, -1, 2 >> ],
      [ q |-> << 1, 1, 1, 1 >>,     k |-> << -1, -1, -1, -1 >>, v |-> << 0, 1, 1, 0 >> ],
      [ q |-> << -1, -1, -1, -1 >>, k |-> << 1, 0, 0, 0 >>,     v |-> << 2, 2, 0, -1 >> ],
      [ q |-> << 1, 0, 0, 0 >>,     k |-> << 1, 1, 1, 1 >>,     v |-> << -1, 0, 0, 0 >> ],
      [ q |-> << 1, 0, 0, 0 >>,     k |-> << 1, 0, 0, 0 >>,     v |-> << 1, 1, 1, 1 >> ] }

\* a token is appended to the context
AppendToContext ==
    /\ Len(Q) < MaxCtx
    /\ \E p \in AttnPositions :
           /\ Q' = Append(Q, p.q)
           /\ K' = Append(K, p.k)
           /\ V' = Append(V, p.v)
    /\ UNCHANGED << ctlVars, viewVars, utilVars, simVars, trainVars >>

\* the last token of the context is replaced by another one
ReplaceLastOfContext ==
    /\ Len(Q) > 1
    /\ \E p \in AttnPositions :
           /\ p.q # Last(Q) \/ p.k # Last(K) \/ p.v # Last(V)
           /\ Q' = [ Q EXCEPT ![Len(Q)] = p.q ]
           /\ K' = [ K EXCEPT ![Len(K)] = p.k ]
           /\ V' = [ V EXCEPT ![Len(V)] = p.v ]
    /\ UNCHANGED << ctlVars, viewVars, utilVars, simVars, trainVars >>

\* attention over a one-token context; the App and the view stay as constructed
ContextStart ==
    /\ AppInit
    /\ maxTokens = 1
    /\ ViewInit
    /\ UtilInit /\ SimInit /\ TrainInit
    /\ \E p \in AttnPositions :
           /\ Q = << p.q >>
           /\ K = << p.k >>
           /\ V = << p.v >>

SpecAttnOut == ContextStart /\ [][AppendToContext \/ ReplaceLastOfContext]_vars

----------------------------------------------------------------------------
(* utils/math called on its own: matMul and computeAttention on matrix shapes *)

\* the outcome of a call
Returned(v) == [ kind |-> "returned", value |-> v ]

Threw(msg) == [ kind |-> "threw", message |-> msg ]

\* a matrix, as far as the shape tests go
Shape(r, c) == [ rows |-> r, cols |-> c ]

\* matMul(a, b): the only shape test of utils/math
matMul(a, b) ==
    IF a.cols # b.rows
    THEN Threw("Matrix dimension mismatch")
    ELSE Returned(Shape(a.rows, b.cols))

\* dotProduct(a, b) reduces over a and reads b[i]: where b is shorter, b[i] is
\* undefined and the sum is NaN; where b is longer, its tail is ignored
dotProductIsNaN(widthA, widthB) == widthB < widthA

\* computeAttention(input, W_Q, W_K, W_V): three matMul calls, then the score
\* loop, which tests no shape; every row i has the entry j = i, so a NaN
\* dot product reaches scores, weights and weightedSum
computeAttentionCall(input, W_Q, W_K, W_V) ==
    LET q == matMul(input, W_Q)
        k == matMul(input, W_K)
        v == matMul(input, W_V)
    IN  IF q.kind = "threw" THEN q
        ELSE IF k.kind = "threw" THEN k
        ELSE IF v.kind = "threw" THEN v
        ELSE Returned([ Q |-> q.value, K |-> k.value, V |-> v.value,
                        scoresNaN |-> dotProductIsNaN(q.value.cols, k.value.cols) ])

\* the matrix widths explored
Widths == { 3, 4 }

\* a caller invokes the attention stage
CallComputeAttention ==
    /\ \E n \in 1..MaxCtx : \E d \in Widths :
       \E rq \in Widths : \E cq \in Widths : \E rk \in Widths : \E ck \in Widths :
       \E rv \in Widths : \E cv \in Widths :
          LET args == [ input |-> Shape(n, d), W_Q |-> Shape(rq, cq),
                        W_K |-> Shape(rk, ck), W_V |-> Shape(rv, cv) ]
          IN  utilCall' = << [ op     |-> "computeAttention",
                               args   |-> args,
                               result |-> computeAttentionCall(args.input, args.W_Q,
                                                               args.W_K, args.W_V) ] >>
    /\ UNCHANGED << ctlVars, viewVars, attnVars, simVars, trainVars >>

\* the App, the view and the attention inputs as constructed
RestInit ==
    /\ AppInit
    /\ maxTokens = 1
    /\ ViewInit
    /\ AttnInit

\* the App at rest, no utility function called, the controller idle
CallsInit == RestInit /\ UtilInit /\ SimInit /\ TrainInit

SpecAttnCall == CallsInit /\ [][CallComputeAttention]_vars

\* the training simulator on its own
SpecTraining == CallsInit /\ [][TrainingNext]_vars

\* the generation controller on its own
SpecController == CallsInit /\ [][SimNext]_vars

\* the vocabulary of the simulator's constants module
VOCABULARY ==
    << "<PAD>", "<START>", "<END>", "<UNK>", "I", "like", "cats", "dogs", "and",
       "you", "are", "cute", "very", "much", ".", "!" >>

\* TOKENS.find(t => t.text === text)
TokenOf(text) ==
    [ id   |-> (CHOOSE i \in 1..Len(VOCABULARY) : VOCABULARY[i] = text) - 1,
      text |-> text ]

\* text.replace(/([.,!])/g, " $1 "): a blank on either side of every punctuation
\* character
RECURSIVE PadPunctuation(_)
PadPunctuation(text) ==
    IF text = << >> THEN << >>
    ELSE (IF IsPunct(text[1]) THEN << " ", text[1], " " >> ELSE << text[1] >>)
             \o PadPunctuation(Tail(text))

\* the words of the tokenizer, empty words skipped
rawWords(text) ==
    SelectSeq(SplitWhitespace(PadPunctuation(text)), LAMBDA word : word # << >>)

\* a word that is an entry of the vocabulary `voc`, as that entry's text
IsEntry(word, voc) == Len(word) = 1 /\ word[1] \in Range(voc)

\* tokenize(text) of the tokenizer module
utilsTokenize(text) ==
    LET words == rawWords(text)
    IN  << TokenOf("<START>") >> \o
        [ i \in 1..Len(words) |->
            IF IsEntry(words[i], VOCABULARY) THEN TokenOf(words[i][1]) ELSE TokenOf("<UNK>") ]

\* texts.join(" ")
RECURSIVE JoinWithBlank(_)
JoinWithBlank(texts) ==
    IF Len(texts) <= 1 THEN texts
    ELSE << texts[1], " " >> \o JoinWithBlank(Tail(texts))

\* the first position from i on that holds no blank, Len(s) + 1 when there is none
RECURSIVE SkipBlanks(_, _)
SkipBlanks(s, i) ==
    IF i > Len(s) \/ ~IsBlank(s[i]) THEN i ELSE SkipBlanks(s, i + 1)

\* s.replace(/\s+([.,!])/g, "$1"): a run of blanks that ends at a punctuation
\* character is removed
RECURSIVE RemoveBlanksBeforePunct(_)
RemoveBlanksBeforePunct(s) ==
    IF s = << >> THEN << >>
    ELSE LET k == SkipBlanks(s, 1)
         IN  IF k > 1 /\ k <= Len(s) /\ IsPunct(s[k])
             THEN RemoveBlanksBeforePunct(SubSeq(s, k, Len(s)))
             ELSE << s[1] >> \o RemoveBlanksBeforePunct(Tail(s))

\* detokenize(tokens) of the tokenizer module
detokenize(tokens) ==
    LET kept  == SelectSeq(tokens, LAMBDA t : t.text # "<START>" /\ t.text # "<PAD>")
        texts == [ i \in 1..Len(kept) |-> kept[i].text ]
    IN  RemoveBlanksBeforePunct(JoinWithBlank(texts))

\* what the texts handed to the tokenizer are made of: vocabulary words, a
\* blank and punctuation
TokenizerAtoms == { "I", "cats", " ", ".", "," }

\* the texts of at most n atoms
TextsUpTo(n) == UNION { [ 1..k -> TokenizerAtoms ] : k \in 0..n }

CallTokenize ==
    /\ \E text \in TextsUpTo(MaxText) :
           utilCall' = << [ op     |-> "tokenize",
                            args   |-> [ text |-> text ],
                            result |-> Returned(utilsTokenize(text)) ] >>
    /\ UNCHANGED << ctlVars, viewVars, attnVars, simVars, trainVars >>

\* detokenize applied to what tokenize returned
CallDetokenize ==
    /\ utilCall # << >>
    /\ utilCall[1].op = "tokenize"
    /\ utilCall' = << [ op     |-> "detokenize",
                        args   |-> [ tokens |-> utilCall[1].result.value,
                                     text   |-> utilCall[1].args.text ],
                        result |-> Returned(detokenize(utilCall[1].result.value)) ] >>
    /\ UNCHANGED << ctlVars, viewVars, attnVars, simVars, trainVars >>

SpecTokenizer == CallsInit /\ [][CallTokenize \/ CallDetokenize]_vars

\* at most this many token ids are looked up in one call
MaxIds == 3

\* a row of the embedding matrix, and the row of zeros that stands in for a
\* missing one
EmbeddingRow(id) == [ kind |-> "row", id |-> id ]
ZeroRow == [ kind |-> "zeros" ]

\* embeddingMatrix[id] is undefined outside the rows of the matrix
HasRow(id, rows) == id \in 0..(rows - 1)

\* getEmbeddings(tokenIds, embeddingMatrix), for a matrix of `rows` rows
getEmbeddings(tokenIds, rows) ==
    Returned([ i \in 1..Len(tokenIds) |->
                 IF HasRow(tokenIds[i], rows) THEN EmbeddingRow(tokenIds[i]) ELSE ZeroRow ])

\* token ids handed to the lookup: the first, the last, and the ids next to them
LookupIds == { -1, 0, 1, Len(VOCABULARY) - 1, Len(VOCABULARY) }

CallGetEmbeddings ==
    /\ \E n \in 1..MaxIds : \E tokenIds \in [ 1..n -> LookupIds ] :
           utilCall' = << [ op     |-> "getEmbeddings",
                            args   |-> [ tokenIds |-> tokenIds, rows |-> Len(VOCABULARY) ],
                            result |-> getEmbeddings(tokenIds, Len(VOCABULARY)) ] >>
    /\ UNCHANGED << ctlVars, viewVars, attnVars, simVars, trainVars >>

SpecEmbeddings == CallsInit /\ [][CallGetEmbeddings]_vars

----------------------------------------------------------------------------
(* The feed-forward stage: computeFFN of utils/math and the App's inline one *)

\* the inputs of the stage have 1..FfnRows rows
FfnRows == 3

\* Inputs are in hundredths and weights are whole numbers, so every sum of
\* products is a whole number of hundredths and toFixed(2) leaves it as it is.
Column(matrix, j) == [ k \in 1..Len(matrix) |-> matrix[k][j] ]

\* the entries of matMul(a, b), for matrices that pass its dimension test
matMulEntries(a, b) ==
    [ i \in 1..Len(a) |-> [ j \in 1..Len(b[1]) |-> dotProduct(a[i], Column(b, j)) ] ]

Max0(x) == IF x > 0 THEN x ELSE 0

\* computeFFN(input, W1, b1, W2, b2)
computeFFN(input, W1, b1, W2, b2) ==
    LET hidden == [ r \in 1..Len(input) |->
                      [ i \in 1..Len(b1) |-> Max0(matMulEntries(input, W1)[r][i] + b1[i]) ] ]
    IN  [ r \in 1..Len(input) |->
            [ i \in 1..Len(b2) |-> matMulEntries(hidden, W2)[r][i] + b2[i] ] ]

\* matMulVector(vec, matrix) of the App
matMulVector(vec, matrix) ==
    [ j \in 1..Len(matrix[1]) |-> SumSeq([ i \in 1..Len(vec) |-> vec[i] * matrix[i][j] ], Len(vec)) ]

\* relu(vec) of the App
relu(vec) == [ i \in 1..Len(vec) |-> Max0(vec[i]) ]

\* mutant: the hidden layer of every row is computed from the last row
feedForwardOfLastRow(postAttention, wFF1, wFF2) ==
    LET ffnHidden == [ r \in 1..Len(postAttention) |->
                         relu(matMulVector(postAttention[Len(postAttention)], wFF1)) ]
    IN  [ r \in 1..Len(postAttention) |-> matMulVector(ffnHidden[r], wFF2) ]

\* ffnHidden and ffnOutput of runPipeline
feedForward(postAttention, wFF1, wFF2) ==
    LET ffnHidden == [ r \in 1..Len(postAttention) |->
                         relu(matMulVector(postAttention[r], wFF1)) ]
    IN  [ r \in 1..Len(postAttention) |-> matMulVector(ffnHidden[r], wFF2) ]

\* weights of a stage of width 2 with a hidden layer of width 4
FfnW1 == << << 1, -1, 2, 0 >>, << -1, 1, 0, 2 >> >>
FfnW2 == << << 1, 0 >>, << 0, 1 >>, << 1, -1 >>, << -1, 1 >> >>
FfnB1 == << 0, 1, -1, 0 >>
FfnB2 == << 1, -1 >>

\* rows of an input, in hundredths
FfnInputRows == { << 100, -100 >>, << -100, 100 >>, << 50, 50 >> }

FfnInputs == UNION { [ 1..n -> FfnInputRows ] : n \in 1..FfnRows }

\* a first call of the stage `op`, or a second one next to the first
PairedCall(op) == utilCall = << >> \/ (Len(utilCall) = 1 /\ utilCall[1].op = op)

\* computeFFN applied to an input, up to two inputs with the same weights
CallComputeFFN ==
    /\ PairedCall("computeFFN")
    /\ \E X \in FfnInputs :
           utilCall' = Append(utilCall,
               [ op |-> "computeFFN", args |-> [ input |-> X ],
                 result |-> Returned(computeFFN(X, FfnW1, FfnB1, FfnW2, FfnB2)) ])
    /\ UNCHANGED << ctlVars, viewVars, attnVars, simVars, trainVars >>

\* the App's feed-forward lines applied to an input, up to two inputs with the
\* same weights
CallFeedForward ==
    /\ PairedCall("feedForward")
    /\ \E X \in FfnInputs :
           utilCall' = Append(utilCall,
               [ op |-> "feedForward", args |-> [ input |-> X ],
                 result |-> Returned(feedForward(X, FfnW1, FfnW2)) ])
    /\ UNCHANGED << ctlVars, viewVars, attnVars, simVars, trainVars >>

SpecFFN == CallsInit /\ [][CallComputeFFN \/ CallFeedForward]_vars

----------------------------------------------------------------------------
(* The weight generator of the App *)

\* at most this many calls of the generator are kept side by side
MaxCalls == 3

\* Math.sin(x) * 0.5, kept as the argument it is taken at (for integers x the
\* value determines x)
HalfSin(x) == [ halfSinOf |-> x ]

\* mutant: the generator also reads how many calls were made before
generateMatrixCounting(rows, cols, seed) ==
    [ i \in 1..rows |-> [ j \in 1..cols |->
        HalfSin((i - 1) * 10 + (j - 1) * 20 + seed + Len(utilCall)) ] ]

\* generateMatrix(rows, cols, seed), rows and columns counted from 0 in the code
generateMatrix(rows, cols, seed) ==
    [ i \in 1..rows |-> [ j \in 1..cols |->
        HalfSin((i - 1) * 10 + (j - 1) * 20 + seed) ] ]

\* the weights memoized on embedDim
weights(dim) ==
    [ wQ           |-> generateMatrix(dim, dim, 1),
      wK           |-> generateMatrix(dim, dim, 2),
      wV           |-> generateMatrix(dim, dim, 3),
      wO           |-> generateMatrix(dim, dim, 4),
      wFF1         |-> generateMatrix(dim, dim * 2, 5),
      wFF2         |-> generateMatrix(dim * 2, dim, 6),
      wVocab       |-> generateMatrix(dim, Len(VOCAB), 7),
      embeddings   |-> generateMatrix(Len(VOCAB), dim, 8),
      posEncodings |-> generateMatrix(posEncodingRows, dim, 9) ]

\* sizes and seeds the generator is called with on its own
MatrixSizes == { 1, 2 }
Seeds == { 1, 2 }

\* one more call of the generator
CallGenerateMatrix ==
    /\ Len(utilCall) < MaxCalls
    /\ \E rows \in MatrixSizes, cols \in MatrixSizes, seed \in Seeds :
           utilCall' = Append(utilCall,
                              [ op     |-> "generateMatrix",
                                args   |-> [ rows |-> rows, cols |-> cols, seed |-> seed ],
                                result |-> Returned(generateMatrix(rows, cols, seed)) ])
    /\ UNCHANGED << ctlVars, viewVars, attnVars, simVars, trainVars >>

\* one more evaluation of the weights, for an embedding size of the slider
CallWeights ==
    /\ Len(utilCall) < MaxCalls
    /\ \E dim \in EmbedDims :
           utilCall' = Append(utilCall,
                              [ op     |-> "weights",
                                args   |-> [ embedDim |-> dim ],
                                result |-> Returned(weights(dim)) ])
    /\ UNCHANGED << ctlVars, viewVars, attnVars, simVars, trainVars >>

SpecWeights == CallsInit /\ [][CallGenerateMatrix \/ CallWeights]_vars

----------------------------------------------------------------------------
(* Claims about the generation controller *)

\* the context: prompt tokens followed by the generated tokens
Context == tokenize(inputText) \o generatedTokens

\* the terminal condition on the current context
ContextTerminal ==
    Len(generatedTokens) >= maxTokens \/ Last(Context) = "<END>"

\* C1: with maxTokens = k, whatever steps and auto-run ticks happen, a run never
\* grows beyond k generated tokens: every transition that adds generated tokens
\* ends with at most maxTokens of them.
C1_GrowthWithinMaxTokens ==
    [][ Len(generatedTokens') > Len(generatedTokens)
          => Len(generatedTokens') <= maxTokens' ]_vars

\* an auto-run tick produced the last allowed token and auto-run went idle
C1_Witness ==
    /\ lastOp = "tick"
    /\ Len(generatedTokens) = maxTokens
    /\ maxTokens >= 2
    /\ ~isAutoRunning
    /\ intervals = {}

\* C2: once auto-run has been started and the caller does nothing more, auto-run
\* eventually becomes inactive.
C2_AutoRunEventuallyStops ==
    [](lastOp = "startAuto"
         => <>(~isAutoRunning \/ lastOp \notin {"startAuto", "tick", "runTimeout"}))

C4_StepAtTerminalIsNoOp ==
    [][ (lastOp' \in {"step", "tick"} /\ ContextTerminal)
          => UNCHANGED << generatedTokens, pipelineData >> ]_vars

\* C5: within a run, the context a step uses is the context the previous step
\* used followed by the token that step sampled.
C5_ContextGrowsByOneToken ==
    [][ (stepCtx # << >> /\ stepCtx' # << >> /\ stepCtx' # stepCtx)
          => stepCtx' = Append(stepCtx, Last(generatedTokens)) ]_vars

\* C6: the token a step appends is kept by the top-k / top-p filter applied to
\* the distribution of that step.
C6_SampledTokenSurvivesFilter ==
    [][ Len(generatedTokens') = Len(generatedTokens) + 1
          => IndexOf(Last(generatedTokens'))
                \in ActiveIds(pipelineData'[1].probs, topK, topP) ]_vars

----------------------------------------------------------------------------
(* Claims about the top-k / top-p filter *)

\* the view's sorted and processed token lists in the current state
Sorted == sortedTokens(probabilities)

Processed == processedTokens(Sorted, topK, topP)

\* the sorted positions (1-based) the filter keeps
ActivePositions == { k \in 1..Len(Processed) : Processed[k].isActive }

\* the probability mass of the first n sorted tokens
PrefixMass(n) == SumSeq([ j \in 1..n |-> Sorted[j].prob ], n)

\* C7: for every distribution over a non-empty vocabulary, every topK >= 1 and
\* every topP in (0,1], the filter keeps at least one token.
C7_FilterKeepsAToken == ActiveIds(probabilities, topK, topP) # {}

\* the top token alone exceeds topP, and other tokens exist
C7_Witness ==
    /\ Len(probabilities) >= 2
    /\ Sorted[1].prob > topP
    /\ Sorted[2].prob > 0
    /\ topK >= 2

\* C8: the kept set is exactly the sorted positions k (0-based) with k < topK and
\* the mass of positions 0..k-1 strictly below topP, over a list that is the
\* vocabulary sorted by descending probability; so it is a prefix of at most
\* topK tokens, and when topK does not bind it is the smallest prefix whose mass
\* reaches topP.
C8_FilterIsExactPrefix ==
    LET n == Len(Sorted)
        reach == { j \in 1..n : PrefixMass(j) >= topP }
    IN  /\ n = Len(probabilities)
        /\ { Sorted[k].id : k \in 1..n } = 0..(n - 1)
        /\ \A k \in 1..n : Sorted[k].prob = probabilities[Sorted[k].id + 1]
        /\ \A k \in 1..(n - 1) : Sorted[k].prob >= Sorted[k + 1].prob
        /\ \A k \in 1..n :
              Processed[k].isActive <=> ((k - 1) < topK /\ PrefixMass(k - 1) < topP)
        /\ \E c \in 0..n : ActivePositions = 1..c /\ c <= topK
        /\ \A c \in reach :
              ((\A j \in reach : c <= j) /\ c <= topK) => ActivePositions = 1..c

\* both sliders were moved; the mass before a position equals topP exactly, topK
\* does not bind, and the filter keeps some tokens and drops others
C8_Witness ==
    /\ Len(probabilities) >= 3
    /\ topK >= Len(probabilities)
    /\ topK # initialTopK
    /\ topP # initialTopP
    /\ PrefixMass(2) = topP
    /\ Sorted[3].prob > 0
    /\ ActivePositions = 1..2

----------------------------------------------------------------------------
(* Claims about attention and softmax *)

\* the attention result of utils/math and of the App for the current Q and K
AttentionHead == computeAttention(Q, K)

Pipeline == selfAttention(Q, K)

\* C9: for every context length and every row i, every entry (i, j) with j > i
\* is the mask sentinel in the score matrix and exactly 0 in the weight matrix,
\* in computeAttention and in runPipeline.
C9_CausalMask ==
    LET head == AttentionHead
        pipe == Pipeline
    IN  \A i \in 1..Len(Q) : \A j \in 1..Len(Q) :
            j > i =>
                /\ head.scores[i][j] = MaskScore
                /\ head.weights[i][j] = 0
                /\ pipe.attentionScores[i][j] = MaskScore
                /\ pipe.attentionWeights[i][j].num = 0

\* three positions; the second row spreads its weight over two visible
\* positions and has a masked third entry
C9_Witness ==
    /\ Len(Q) = 3
    /\ AttentionHead.weights[2][1] > 0
    /\ AttentionHead.weights[2][2] > AttentionHead.weights[2][1]
    /\ Pipeline.attentionWeights[2][1].num > 0
    /\ AttentionHead.scores[2][3] = MaskScore

\* C10: every softmax output sums to 1 within 1e-6 and has its entries in
\* [0,1], rounding included: a row of 4-decimal weights sums to exactly 10000
\* ten-thousandths, a row of unrounded quotients has numerators summing to the
\* denominator.
C10_SoftmaxSumsToOne ==
    LET head == AttentionHead
        pipe == Pipeline
    IN  \A i \in 1..Len(Q) :
            LET w == head.weights[i]
                a == pipe.attentionWeights[i]
            IN  /\ SumSeq(w, Len(w)) = 10000
                /\ \A j \in 1..Len(w) : w[j] \in 0..10000
                /\ SumSeq([ j \in 1..Len(a) |-> a[j].num ], Len(a)) = a[1].den
                /\ \A j \in 1..Len(a) : a[j].num \in 0..a[j].den

----------------------------------------------------------------------------
(* Claims about error handling in the utility functions *)

\* C11: invoking the attention stage so that Q has width 4 and K has width 3
\* fails with the dimension-mismatch error, and returns no scores.
C11_WidthMismatchFails ==
    \A c \in Range(utilCall) :
        (c.op = "computeAttention" /\ c.args.W_Q.cols = 4 /\ c.args.W_K.cols = 3)
            => (c.result.kind = "threw"
                /\ c.result.message = "Matrix dimension mismatch")

\* C13: an embedding lookup that is handed a token id outside 0..|V|-1 fails
\* with an error and returns no rows.
C13_OutOfRangeIdAborts ==
    \A c \in Range(utilCall) :
        (c.op = "getEmbeddings"
            /\ \E i \in 1..Len(c.args.tokenIds) : ~HasRow(c.args.tokenIds[i], c.args.rows))
                => c.result.kind = "threw"

----------------------------------------------------------------------------
(* Claims about the tokenizers *)

\* C14: the tokens of the prompt are the start token followed by one token per
\* word, the words being what whitespace separates once every . , ! stands as a
\* word of its own; a word that is a vocabulary entry gives that entry, any
\* other word the unknown token; and "I like cats" gives the ids 1, 4, 5, 6.
\* (Stated for the texts that hold at least one word.)
C14_TokenizeOneTokenPerWord ==
    LET words  == rawWords(inputText)
        tokens == tokenize(inputText)
    IN  /\ words # << >>
               => tokens = << "<START>" >> \o
                      [ i \in 1..Len(words) |->
                          IF IsEntry(words[i], VOCAB) THEN words[i][1] ELSE "<UNK>" ]
        /\ inputText = PromptILikeCats
               => [ i \in 1..Len(tokens) |-> IndexOf(tokens[i]) ] = << 1, 4, 5, 6 >>

\* a text with its blanks left out
NonBlank(text) == SelectSeq(text, LAMBDA a : ~IsBlank(a))

\* every word of the text is a vocabulary entry or one of . , !
OnlyKnownWords(text) ==
    LET words == rawWords(text)
    IN  \A i \in 1..Len(words) :
            IsEntry(words[i], VOCABULARY) \/ (Len(words[i]) = 1 /\ IsPunct(words[i][1]))

\* C15: detokenize applied to tokenize(s) gives s back, whitespace aside, for
\* every s made of in-vocabulary words and the punctuation . , !
C15_RoundTrip ==
    \A c \in Range(utilCall) :
        (c.op = "detokenize" /\ OnlyKnownWords(c.args.text))
            => NonBlank(c.result.value) = NonBlank(c.args.text)

\* the text has a word, and every word of it is an entry of both vocabularies
\* or one of . , !
OnlyCommonWords(text) ==
    LET words == rawWords(text)
    IN  /\ words # << >>
        /\ \A i \in 1..Len(words) :
               \/ IsEntry(words[i], VOCAB) /\ IsEntry(words[i], VOCABULARY)
               \/ Len(words[i]) = 1 /\ IsPunct(words[i][1])

\* C24: for a prompt built from words common to both vocabularies, whitespace
\* and . , ! the tokenizer module and the App's tokenize return the same
\* token texts.
C24_TokenizersAgree ==
    OnlyCommonWords(inputText) =>
        LET tokens == utilsTokenize(inputText)
        IN  tokenize(inputText) = [ i \in 1..Len(tokens) |-> tokens[i].text ]

----------------------------------------------------------------------------
(* Claims about a failing forward pass *)

\* C12: when the forward pass of a step (a click on Step or a timer tick)
\* throws, the error leaves the handler and the snapshot, the generated tokens
\* and the context are those of before the step.
C12_FailedStepLeavesStateUnchanged ==
    [][ (lastError' # << >> /\ lastOp' \in {"step", "tick"})
            => /\ pipelineData' = pipelineData
               /\ generatedTokens' = generatedTokens
               /\ \E text \in { inputText' } :
                      tokenize(text) \o generatedTokens' = Context ]_vars

\* a step has thrown after an earlier step had published a snapshot and a token
C12_Witness ==
    /\ lastError = << "TypeError" >>
    /\ lastOp \in {"step", "tick"}
    /\ pipelineData # << >>
    /\ generatedTokens # << >>
    /\ runPipelineThrows(Context)

\* C27: a forward pass only ever runs on a context of at most posEncodingRows
\* tokens: every published snapshot is of such a context, and no pass has
\* failed for want of a positional-encoding row.
C27_ContextFitsPositionalTable ==
    /\ pipelineData # << >> => Len(pipelineData[1].tokens) <= posEncodingRows
    /\ lastError = << >>

\* C28: the run requested by a preset button publishes the forward pass of the
\* preset's prompt: where the delayed callback of that run fires right after the
\* button's event, the snapshot it publishes is that of tokenize(inputText).
C28_PresetRunUsesPresetPrompt ==
    [][ (/\ lastOp = "preset"
         /\ Len(pendingRuns) = 1
         /\ lastOp' = "runTimeout"
         /\ lastError' = << >>)
            => pipelineData' = << runPipeline(tokenize(inputText), embedDim, temperature) >> ]_vars

\* C29: a step of the auto-run timer computes its forward pass with the prompt
\* and the temperature of the state in which the tick fires.
C29_TickUsesCurrentConfiguration ==
    [][ (/\ lastOp' = "tick"
         /\ lastError' = << >>
         /\ generatedTokens' # generatedTokens)
            => pipelineData' =
                   << runPipeline(Context, embedDim, temperature) >> ]_vars

----------------------------------------------------------------------------
(* Claims about operations in flight *)

\* C16: right after a change of the embedding size the generated tokens are
\* empty and no snapshot is published, and a snapshot that is published at any
\* time was computed with the weights of the current embedding size.
C16_SnapshotOfCurrentEmbedDim ==
    /\ lastOp = "setEmbedDim" => (generatedTokens = << >> /\ pipelineData = << >>)
    /\ pipelineData # << >> => pipelineData[1].embedDim = embedDim

\* s is a prefix of t
IsPrefix(s, t) == Len(s) <= Len(t) /\ SubSeq(t, 1, Len(s)) = s

\* C17: a snapshot computed for an earlier context of the run is never
\* published over a snapshot computed for a later context of that run.
C17_SnapshotsInOrder ==
    [][ \E text \in { inputText' } :
          (/\ pipelineData # << >>
           /\ pipelineData' # << >>
           /\ IsPrefix(pipelineData[1].tokens, tokenize(text) \o generatedTokens'))
              => ~(/\ pipelineData'[1].tokens # pipelineData[1].tokens
                   /\ IsPrefix(pipelineData'[1].tokens, pipelineData[1].tokens)) ]_vars

\* C18: a run or step request made while auto-run is active is rejected and
\* not queued: it changes neither the prompt, the generated tokens nor the
\* snapshot, and schedules nothing.
C18_RequestWhileActiveRejected ==
    [][ (isAutoRunning /\ lastOp' \in {"step", "runFull", "preset"})
            => /\ inputText' = inputText
               /\ generatedTokens' = generatedTokens
               /\ pipelineData' = pipelineData
               /\ pendingRuns' = pendingRuns ]_vars

----------------------------------------------------------------------------
(* Claims about the step state machine *)

----------------------------------------------------------------------------
(* Claims about the scenario of one token *)

\* C20: with embedDim 4, maxTokens 1, temperature 1.0 and the prompt
\* "I like cats", a step appends exactly one token, there are never two, once
\* the token is there auto-run is inactive with no timer left and nothing is
\* appended any more, and an auto-run that was started does end.  (Holds at
\* temperature 1.0 and wherever else the slider is moved.)
C20_ExactlyOneToken ==
    /\ [](Len(generatedTokens) <= 1)
    /\ [](Len(generatedTokens) = 1 => (~isAutoRunning /\ intervals = {}))
    /\ [][ /\ lastOp' \in {"step", "tick"}
               => (generatedTokens = << >> /\ Len(generatedTokens') = 1)
           /\ Len(generatedTokens) = 1
               => (generatedTokens' = generatedTokens \/ lastOp' = "runFull") ]_vars
    /\ (isAutoRunning ~> (~isAutoRunning /\ intervals = {}))

\* auto-run has produced the one token and has stopped
C20_Witness ==
    /\ inputText = PromptILikeCats
    /\ maxTokens = 1
    /\ Len(generatedTokens) = 1
    /\ lastOp = "tick"
    /\ ~isAutoRunning
    /\ intervals = {}
    /\ embedDim = 4
    /\ temperature = 10
    /\ pipelineData # << >>
    /\ pipelineData[1].temperature = 10

----------------------------------------------------------------------------
(* Claims about the weights *)

----------------------------------------------------------------------------
(* Claims about the feed-forward stage *)

\* C22: for two inputs of the feed-forward stage with the same weights, a row
\* that is the same in both gives the same output row, whatever the other rows
\* and the number of rows are.
C22_RowsAreIndependent ==
    \A a, b \in 1..Len(utilCall) :
        utilCall[a].op = utilCall[b].op =>
            \A i \in 1..Len(utilCall[a].args.input) :
                (i <= Len(utilCall[b].args.input)
                    /\ utilCall[a].args.input[i] = utilCall[b].args.input[i])
                        => utilCall[a].result.value[i] = utilCall[b].result.value[i]

\* two inputs of different heights that share their second row only
C22_Witness ==
    /\ Len(utilCall) = 2
    /\ utilCall[1].op = "feedForward"
    /\ Len(utilCall[1].args.input) = 2
    /\ Len(utilCall[2].args.input) = 3
    /\ utilCall[1].args.input[1] # utilCall[2].args.input[1]
    /\ utilCall[1].args.input[2] = utilCall[2].args.input[2]
    /\ utilCall[1].result.value[2] = utilCall[2].result.value[2]
    /\ utilCall[1].result.value[1] # utilCall[2].result.value[1]

\* C30: the k-th training step since the last reset uses TRAINING_DATA[k mod 6],
\* changes the weight row of that pair's input token and no other row, and
\* raises the step counter by exactly one (k counted by the losses recorded
\* since the reset).
C30_PairsVisitedInCyclicOrder ==
    [][ Len(training'.lossHistory) = Len(training.lossHistory) + 1 =>
            LET k    == Len(training.lossHistory)
                pair == TRAINING_DATA[(k % Len(TRAINING_DATA)) + 1]
                row  == TOKEN_MAP(pair.input)
            IN  /\ training'.currentPair = << pair >>
                /\ Last(training'.lossHistory).input = pair.input
                /\ Last(training'.lossHistory).target = pair.target
                /\ training'.weights[row] # training.weights[row]
                /\ \A r \in DOMAIN training.weights :
                       r # row => training'.weights[r] = training.weights[r]
                /\ training.step = k
                /\ training'.step = k + 1 ]_vars

\* training was paused and resumed, the learning rate moved, and the step after
\* the last pair of TRAINING_DATA went back to its first pair
C30_Witness ==
    /\ training.step = Len(TRAINING_DATA) + 1
    /\ training.currentPair = << TRAINING_DATA[1] >>
    /\ training.isTraining
    /\ \E u \in 1..Len(training.weights[TOKEN_MAP("Paris")]) :
           training.weights[TOKEN_MAP("Paris")][u].learningRate # LEARNING_RATE_DEFAULT

\* C26: the number of generated tokens is at most the configured maxTokens in
\* every state, also after the Max Tokens slider was moved.
C26_WithinConfiguredMaxTokens == Len(generatedTokens) <= maxTokens

----------------------------------------------------------------------------
(* Claims about the context *)

\* C23: the context is never empty and begins with the start token, for every
\* prompt text, the empty one included, and after steps, resets and edits; so
\* does the context a snapshot was computed for, and what the tokenizer module
\* returns for the prompt.
C23_ContextBeginsWithStart ==
    /\ Len(Context) >= 1
    /\ Context[1] = "<START>"
    /\ pipelineData # << >> => pipelineData[1].tokens[1] = "<START>"
    /\ utilsTokenize(inputText)[1].text = "<START>"

\* the prompt was emptied and a step was made on it
C23_Witness ==
    /\ inputText = << >>
    /\ lastOp = "step"
    /\ generatedTokens # << >>
    /\ pipelineData # << >>
    /\ pipelineData[1].tokens = << "<START>", "<UNK>" >>

----------------------------------------------------------------------------
(* Claims about causality of attention *)

\* the positions 1..i on which two contexts agree
AgreeUpTo(Q1, K1, V1, Q2, K2, V2, i) ==
    /\ i <= Len(Q1) /\ i <= Len(Q2)
    /\ \A p \in 1..i : Q1[p] = Q2[p] /\ K1[p] = K2[p] /\ V1[p] = V2[p]

\* C25: when a token is appended to the context or its last token is
\* replaced, every position i before the change keeps its attention result:
\* the scores and weights of row i over the positions up to i and the output
\* row i are what they were, in computeAttention and in runPipeline (every
\* entry of row i after position i being masked in both contexts).
C25_AttentionIsCausal ==
    [][ \E Q2 \in { Q' } : \E K2 \in { K' } : \E V2 \in { V' } :
        \E h1 \in { computeAttentionOutput(Q, K, V) } :
        \E h2 \in { computeAttentionOutput(Q2, K2, V2) } :
        \E p1 \in { selfAttentionOutput(Q, K, V) } :
        \E p2 \in { selfAttentionOutput(Q2, K2, V2) } :
            \A i \in 1..Len(Q) :
                AgreeUpTo(Q, K, V, Q2, K2, V2, i) =>
                    /\ h1.weightedSum[i] = h2.weightedSum[i]
                    /\ p1.attentionOutput[i] = p2.attentionOutput[i]
                    /\ \A j \in 1..i :
                           /\ h1.scores[i][j] = h2.scores[i][j]
                           /\ h1.weights[i][j] = h2.weights[i][j]
                           /\ p1.attentionScores[i][j] = p2.attentionScores[i][j]
                           /\ p1.attentionWeights[i][j] = p2.attentionWeights[i][j] ]_vars

\* three positions, the second of which attends to two positions with
\* different weights: its row is what the next change must leave alone
C25_Witness ==
    /\ Len(Q) = 3
    /\ V # << >>
    /\ LET p == selfAttentionOutput(Q, K, V)
       IN  /\ p.attentionWeights[2][1].num # p.attentionWeights[2][2].num
           /\ p.attentionWeights[2][3].num = 0
           /\ p.attentionOutput[2] # p.attentionOutput[3]

====
